---- MODULE Spec2Model ----
(***************************************************************************)
(* Model of the two Streamlit applications of the repository:              *)
(*   Resume-Builder/main.py     (ResumeBuilder, main_ui)                   *)
(*   Nutrition-Planner/main.py  (generate_meal_plan, main)                 *)
(* Text is a sequence of one-character strings; a Python Optional is a     *)
(* record [ok, val] (None has ok = FALSE).                                 *)
(***************************************************************************)
EXTENDS Integers, Sequences, FiniteSets, TLC

VARIABLES
    app,                    \* which application this session runs
    api_key,                \* whether GOOGLE_API_KEY is set in the environment
    session_state,          \* st.session_state of the resume application
    skill_cb,               \* checkboxes skill_{i} (resume tab), index i+1
    cover_letter_skill_cb,  \* checkboxes cover_letter_skill_{i}, index i+1
    pressed,                \* the button pressed in the last script run
    msgs,                   \* st.warning / st.error messages of the last run
    sent,                   \* calls to the service during the last run: prompt, answer
    invoked,                \* ResumeBuilder methods the last run's handler called
    escaped,                \* an exception escaped the last script run
    meal_shown,             \* nutrition: the meal plan displayed by the last run
    meal_link,              \* nutrition: the download link was displayed
    step3,                  \* resume application: what Step 3 of each tab displayed in the last run
    skills_jd,              \* history: the job description the stored skill list was extracted from
    pc,                     \* method harness: "call" before, "done" after
    fn,                     \* method harness: the ResumeBuilder method called
    args,                   \* method harness: its arguments
    svc,                    \* method harness: what the service answers
    ret                     \* method harness: the value returned

vars == <<app, api_key, session_state, skill_cb, cover_letter_skill_cb, pressed, msgs, sent, invoked, escaped, meal_shown, meal_link, step3, skills_jd, pc, fn, args, svc, ret>>

uiVars == <<app, api_key, session_state, skill_cb, cover_letter_skill_cb, pressed, invoked, escaped, meal_shown, meal_link, step3, skills_jd>>

fnVars == <<pc, fn, args, svc, ret>>

----------------------------------------------------------------------------
\* Bounds of the model.

\* most numbered lines in a multi-line response drawn for extract_skills
MaxNumbered == 11

\* longest single line enumerated character by character
MaxLineLen == 4

\* checkboxes the user leaves unticked at a time, the two tabs together
MaxUnticked == 1

\* longest byte buffer given to create_download_link
MaxBytes == 4

----------------------------------------------------------------------------
\* Program constants.

MAX_SKILLS == 10

\* value=(i < 5): the first five checkboxes are ticked by default
DefaultChecked == 5

\* len(selected_skills) < 3
MinSelected == 3

----------------------------------------------------------------------------
\* Python values.

None == [ok |-> FALSE, val |-> <<>>]

Some(v) == [ok |-> TRUE, val |-> v]

\* truth value of an Optional[str] / Optional[list]: None, "" and [] are false
Truthy(x) == x.ok /\ x.val # <<>>

NL == "\n"

\* a character outside latin-1
NonLatin1 == "U+2713"

IsSpace(c) == c \in {" ", NL, "\t", "\r"}

IsDigit(c) == c \in {"0", "1", "2", "3", "4", "5", "6", "7", "8", "9"}

RECURSIVE LStrip(_)
LStrip(s) == IF s # <<>> /\ IsSpace(Head(s)) THEN LStrip(Tail(s)) ELSE s

RECURSIVE RStrip(_)
RStrip(s) ==
    IF s # <<>> /\ IsSpace(s[Len(s)]) THEN RStrip(SubSeq(s, 1, Len(s) - 1)) ELSE s

\* str.strip()
Strip(s) == RStrip(LStrip(s))

RECURSIVE SplitAcc(_, _, _)
SplitAcc(s, cur, acc) ==
    IF s = <<>> THEN Append(acc, cur)
    ELSE IF Head(s) = NL THEN SplitAcc(Tail(s), <<>>, Append(acc, cur))
    ELSE SplitAcc(Tail(s), Append(cur, Head(s)), acc)

\* str.split('\n')
SplitLines(s) == SplitAcc(s, <<>>, <<>>)

RECURSIVE CountLeading(_, _)
CountLeading(s, isDigits) ==
    IF s # <<>> /\ (IF isDigits THEN IsDigit(Head(s)) ELSE IsSpace(Head(s)))
    THEN 1 + CountLeading(Tail(s), isDigits)
    ELSE 0

\* what (.+)$ may match: at least one character, none a newline, reaching
\* the end of the string or the newline that ends it
DotPlusToEnd(s) ==
    LET body == IF s # <<>> /\ s[Len(s)] = NL THEN SubSeq(s, 1, Len(s) - 1) ELSE s
    IN  IF body # <<>> /\ \A i \in 1..Len(body) : body[i] # NL
        THEN Some(body) ELSE None

\* \s*(.+)$ with \s* greedy: skip j leading blanks, the largest j first
RECURSIVE MatchTail(_, _)
MatchTail(rest, j) ==
    LET g == DotPlusToEnd(SubSeq(rest, j + 1, Len(rest)))
    IN  IF g.ok THEN g
        ELSE IF j = 0 THEN None
        ELSE MatchTail(rest, j - 1)

\* the pattern with \s+ in place of \s*
RegexMatchNeedsSpace(s) ==
    LET d == CountLeading(s, TRUE)
    IN  IF d >= 1 /\ Len(s) > d /\ s[d + 1] = "."
        THEN LET rest == SubSeq(s, d + 2, Len(s))
             IN  IF CountLeading(rest, FALSE) >= 1 THEN MatchTail(rest, CountLeading(rest, FALSE)) ELSE None
        ELSE None

\* re.match(r'^\d+\.\s*(.+)$', s): group(1), or None
RegexMatch(s) ==
    LET d == CountLeading(s, TRUE)
    IN  IF d >= 1 /\ Len(s) > d /\ s[d + 1] = "."
        THEN LET rest == SubSeq(s, d + 2, Len(s))
             IN  MatchTail(rest, CountLeading(rest, FALSE))
        ELSE None

----------------------------------------------------------------------------
\* ResumeBuilder

\* _sanitize_input
SanitizeInput(text) == IF text = <<>> THEN <<>> ELSE Strip(text)

\* The generation service answers a prompt with text or raises.
SvcRaise == [raises |-> TRUE, text |-> <<>>]

SvcText(t) == [raises |-> FALSE, text |-> t]

\* _generate_content with a second attempt after a failed call
GenerateContentRetries(prompt, outcome) ==
    IF outcome.raises
    THEN [ret |-> None, sent |-> <<[prompt |-> prompt, answer |-> outcome], [prompt |-> prompt, answer |-> outcome]>>, msgs |-> {"generation_error"}]
    ELSE IF outcome.text = <<>>
    THEN [ret |-> None, sent |-> <<[prompt |-> prompt, answer |-> outcome], [prompt |-> prompt, answer |-> outcome]>>, msgs |-> {}]
    ELSE [ret |-> Some(outcome.text), sent |-> <<[prompt |-> prompt, answer |-> outcome]>>, msgs |-> {}]

\* _generate_content: one call; an exception is caught and reported with
\* st.error, an empty text is only logged; both return None
GenerateContent(prompt, outcome) ==
    IF outcome.raises
    THEN [ret |-> None, sent |-> <<[prompt |-> prompt, answer |-> outcome]>>, msgs |-> {"generation_error"}]
    ELSE IF outcome.text = <<>>
    THEN [ret |-> None, sent |-> <<[prompt |-> prompt, answer |-> outcome]>>, msgs |-> {}]
    ELSE [ret |-> Some(outcome.text), sent |-> <<[prompt |-> prompt, answer |-> outcome]>>, msgs |-> {}]

\* the parsing loop with the cap compared by <= instead of <
RECURSIVE ParseSkillsOffByOne(_, _)
ParseSkillsOffByOne(lines, skills) ==
    IF lines = <<>> THEN skills
    ELSE LET match == RegexMatch(Strip(Head(lines)))
         IN  IF match.ok /\ Len(skills) <= MAX_SKILLS
             THEN ParseSkillsOffByOne(Tail(lines), Append(skills, match.val))
             ELSE ParseSkillsOffByOne(Tail(lines), skills)

\* the parsing loop of extract_skills
RECURSIVE ParseSkills(_, _)
ParseSkills(lines, skills) ==
    IF lines = <<>> THEN skills
    ELSE LET match == RegexMatch(Strip(Head(lines)))
         IN  IF match.ok /\ Len(skills) < MAX_SKILLS
             THEN ParseSkills(Tail(lines), Append(skills, match.val))
             ELSE ParseSkills(Tail(lines), skills)

NoCall == [ret |-> None, sent |-> <<>>, msgs |-> {}]

\* a prompt, by the template it is built from and the texts interpolated
Prompt(kind, resume, jd, skills, company, recipient) == [kind |-> kind, resume |-> resume, jd |-> jd, skills |-> skills, company |-> company, recipient |-> recipient]

\* extract_skills ending in "return skills": an empty list instead of None
ExtractSkillsReturnsList(job_description, outcome) ==
    LET sanitized_jd == SanitizeInput(job_description)
    IN  IF sanitized_jd = <<>> THEN NoCall
        ELSE LET g == GenerateContent(Prompt("extract_skills", <<>>, sanitized_jd, <<>>, <<>>, <<>>), outcome)
             IN  IF ~Truthy(g.ret) THEN g
                 ELSE [g EXCEPT !.ret = Some(ParseSkills(SplitLines(g.ret.val), <<>>))]

\* extract_skills
ExtractSkills(job_description, outcome) ==
    LET sanitized_jd == SanitizeInput(job_description)
    IN  IF sanitized_jd = <<>> THEN NoCall
        ELSE LET g == GenerateContent(Prompt("extract_skills", <<>>, sanitized_jd, <<>>, <<>>, <<>>), outcome)
             IN  IF ~Truthy(g.ret) THEN g
                 ELSE LET skills == ParseSkills(SplitLines(g.ret.val), <<>>)
                      IN  [g EXCEPT !.ret = IF skills # <<>> THEN Some(skills)
                                            ELSE None]

\* generate_custom_resume
GenerateCustomResume(resume, job_description, selected_skills, outcome) ==
    IF resume = <<>> \/ job_description = <<>> \/ selected_skills = <<>>
    THEN NoCall
    ELSE GenerateContent(Prompt("resume", SanitizeInput(resume), SanitizeInput(job_description), selected_skills, <<>>, <<>>), outcome)

\* generate_cover_letter validating only the arguments of generate_custom_resume
GenerateCoverLetterUnchecked(resume, job_description, selected_skills, company_name, recipient_name, outcome) ==
    IF resume = <<>> \/ job_description = <<>> \/ selected_skills = <<>>
    THEN NoCall
    ELSE GenerateContent(Prompt("cover_letter", SanitizeInput(resume), SanitizeInput(job_description), selected_skills, SanitizeInput(company_name), SanitizeInput(recipient_name)), outcome)

\* generate_cover_letter
GenerateCoverLetter(resume, job_description, selected_skills, company_name, recipient_name, outcome) ==
    IF resume = <<>> \/ job_description = <<>> \/ selected_skills = <<>>
       \/ company_name = <<>> \/ recipient_name = <<>>
    THEN NoCall
    ELSE GenerateContent(Prompt("cover_letter", SanitizeInput(resume), SanitizeInput(job_description), selected_skills, SanitizeInput(company_name), SanitizeInput(recipient_name)), outcome)

\* str.encode('latin-1', 'replace').decode('latin-1')
Latin1Replace(text) == [i \in 1..Len(text) |-> IF text[i] = NonLatin1 THEN "?" ELSE text[i]]

\* create_pdf: the bytes of the document, or None when anything in the try
\* block raises (FPDF itself, or resume_text being None); nothing escapes
CreatePdf(resume_text, fpdf_raises) ==
    IF ~resume_text.ok \/ fpdf_raises THEN None
    ELSE Some(<<"%PDF">> \o Latin1Replace(resume_text.val))

\* create_download_link

\* the base64 alphabet, value v at position v + 1
B64Chars == <<"A", "B", "C", "D", "E", "F", "G", "H", "I", "J", "K", "L", "M", "N", "O", "P", "Q", "R", "S", "T", "U", "V", "W", "X", "Y", "Z", "a", "b", "c", "d", "e", "f", "g", "h", "i", "j", "k", "l", "m", "n", "o", "p", "q", "r", "s", "t", "u", "v", "w", "x", "y", "z", "0", "1", "2", "3", "4", "5", "6", "7", "8", "9", "+", "/">>

B64Char(v) == B64Chars[v + 1]

\* base64.b64encode(...).decode(): three bytes give four characters, a last
\* group of one or two bytes is padded with "="
RECURSIVE B64Encode(_)
B64Encode(data) ==
    IF data = <<>> THEN <<>>
    ELSE IF Len(data) = 1
    THEN LET n == data[1] * 16
         IN  <<B64Char(n \div 64), B64Char(n % 64), "=", "=">>
    ELSE IF Len(data) = 2
    THEN LET n == (data[1] * 256 + data[2]) * 4
         IN  <<B64Char(n \div 4096), B64Char((n \div 64) % 64), B64Char(n % 64), "=">>
    ELSE LET n == data[1] * 65536 + data[2] * 256 + data[3]
         IN  <<B64Char(n \div 262144), B64Char((n \div 4096) % 64), B64Char((n \div 64) % 64), B64Char(n % 64)>> \o B64Encode(SubSeq(data, 4, Len(data)))

LinkHref == <<"<", "a", " ", "h", "r", "e", "f", "=", "\"", "d", "a", "t", "a", ":", "a", "p", "p", "l", "i", "c", "a", "t", "i", "o", "n", "/", "o", "c", "t", "e", "t", "-", "s", "t", "r", "e", "a", "m", ";", "b", "a", "s", "e", "6", "4", ",">>

LinkDownload == <<"\"", " ", "d", "o", "w", "n", "l", "o", "a", "d", "=", "\"">>

LinkText == <<"\"", ">", "D", "o", "w", "n", "l", "o", "a", "d", " ">>

LinkEnd == <<"<", "/", "a", ">">>

\* create_download_link with the padding of the payload stripped
CreateDownloadLinkNoPadding(file_data, filename) ==
    LET b64 == SelectSeq(B64Encode(file_data), LAMBDA c : c # "=")
    IN  LinkHref \o b64 \o LinkDownload \o filename \o LinkText \o filename \o LinkEnd

\* create_download_link: the f-string around the encoded data and the
\* filename, neither of them escaped
CreateDownloadLink(file_data, filename) ==
    LET b64 == B64Encode(file_data)
    IN  LinkHref \o b64 \o LinkDownload \o filename \o LinkText \o filename \o LinkEnd

----------------------------------------------------------------------------
\* What the user types and what the generation service answers.

RECURSIVE JoinLines(_)
JoinLines(lines) ==
    IF lines = <<>> THEN <<>>
    ELSE IF Len(lines) = 1 THEN lines[1]
    ELSE lines[1] \o <<NL>> \o JoinLines(Tail(lines))

JobDescs == {<<>>, <<" ">>, <<"j">>, <<"k", " ">>}

\* the fields of the resume tab: filled in, or one of them left empty
ResumeForms ==
    {[resume |-> <<"r">>, jd |-> j] : j \in JobDescs} \cup {[resume |-> <<>>, jd |-> <<"j">>]}

\* the fields of the cover-letter tab
CoverForms ==
    {[resume |-> f.resume, jd |-> f.jd, company |-> <<"c">>, recipient |-> <<"n">>] : f \in ResumeForms}
    \cup {[resume |-> <<"r">>, jd |-> <<"j">>, company |-> <<>>, recipient |-> <<"n">>],
          [resume |-> <<"r">>, jd |-> <<"j">>, company |-> <<"c">>, recipient |-> <<>>]}

\* answers to the skill-extraction prompt: no numbered line (two of them), 2 and 4 skills
SkillTexts ==
    { <<"-", " ", "a">>,
      JoinLines(<< <<"1", ".">>, <<"a", ".", " ", "b">> >>),
      JoinLines(<< <<"1", ".", " ", "a">>, <<"2", ".", "b">> >>),
      JoinLines(<< <<"S", ":">>, <<"1", ".", " ", "b">>, <<" ", "2", ".", " ", "a">>, <<>>, <<"3", ".", " ", "c">>, <<"4", ".", " ", "d">> >>) }

AnalyzeOutcomes == {SvcRaise, SvcText(<<>>)} \cup {SvcText(t) : t \in SkillTexts}

GenerateOutcomes == {SvcRaise, SvcText(<<>>), SvcText(<<"D">>)}

MealOutcomes == {SvcRaise, SvcText(<<>>), SvcText(<<"M">>), SvcText(<<"M", NonLatin1>>)}

\* builder.extract_skills on the inputs of the sessions
builder_extract_skills == [j \in JobDescs, o \in AnalyzeOutcomes |-> ExtractSkills(j, o)]

----------------------------------------------------------------------------
\* main_ui of the resume application: the handlers of one script run.

\* session state after the "Initialize session state" block; custom_resume,
\* custom_cover_letter and selected_skills are keys not yet set
InitialSessionState == [skills |-> Some(<<>>), resume_generated |-> FALSE, cover_letter_generated |-> FALSE, custom_resume |-> None, custom_cover_letter |-> None, selected_skills |-> None]

\* a startup that goes on without the key
BuilderNeverStops(key) == FALSE

\* ResumeBuilder() raises ValueError without the key; main_ui then shows the
\* error and calls st.stop(), so nothing below it is rendered
BuilderStops(key) == ~key

\* value=(i < 5), i counted from 0
DefaultCb == [i \in 1..MAX_SKILLS |-> i <= DefaultChecked]

\* The checkboxes after a run that shows the list new, where the list shown by
\* the run before was old.  A checkbox that is not rendered loses its state; one
\* rendered again with the same label keeps it; one rendered with another label
\* keeps it or returns to its default, depending on the Streamlit release.
Rerender(cb, old, new) ==
    LET rendered(l, i) == Truthy(l) /\ i <= Len(l.val)
        relabelled == {i \in 1..MAX_SKILLS : rendered(new, i) /\ rendered(old, i) /\ old.val[i] # new.val[i]}
        kept == {i \in 1..MAX_SKILLS : rendered(new, i) /\ rendered(old, i) /\ old.val[i] = new.val[i]}
    IN  {[i \in 1..MAX_SKILLS |-> IF i \in kept \cup K THEN cb[i] ELSE DefaultCb[i]] : K \in SUBSET relabelled}

\* the loop that fills selected_skills from the ticked checkboxes
RECURSIVE TickedFrom(_, _, _)
TickedFrom(list, cb, i) ==
    IF i > Len(list) THEN <<>>
    ELSE IF cb[i] THEN <<list[i]>> \o TickedFrom(list, cb, i + 1)
    ELSE TickedFrom(list, cb, i + 1)

Ticked(list, cb) == TickedFrom(list, cb, 1)

\* the threshold one too low
TooFewBelowTwo(selected) == Len(selected) < MinSelected - 1

\* len(selected_skills) < 3
TooFew(selected) == Len(selected) < MinSelected

Outcome(ss, m, p, inv) == [ss |-> ss, msgs |-> m, sent |-> p, invoked |-> inv]

Invoked(method, selected) == <<[method |-> method, skills |-> selected]>>

\* "Analyze Job Requirements"
OnAnalyzeResume(ss, resume_text, job_description, outcome) ==
    IF resume_text = <<>> \/ job_description = <<>>
    THEN Outcome(ss, {"missing_inputs"}, <<>>, <<>>)
    ELSE LET e == builder_extract_skills[job_description, outcome]
             s1 == [ss EXCEPT !.skills = e.ret]
         IN  IF ~Truthy(s1.skills)
             THEN Outcome(s1, e.msgs \cup {"extract_failed"}, e.sent, Invoked("extract_skills", <<>>))
             ELSE Outcome([s1 EXCEPT !.resume_generated = FALSE], e.msgs, e.sent, Invoked("extract_skills", <<>>))

\* the handler passing the selection stored by an earlier Generate, when
\* there is one, instead of the checkboxes ticked now
OnGenerateResumeStale(ss, cb, resume_text, job_description, outcome) ==
    LET selected == IF Truthy(ss.selected_skills) THEN ss.selected_skills.val ELSE Ticked(ss.skills.val, cb)
    IN  IF TooFew(selected) THEN Outcome(ss, {"min_skills"}, <<>>, <<>>)
        ELSE LET g == GenerateCustomResume(resume_text, job_description, selected, outcome)
             IN  IF Truthy(g.ret)
                 THEN Outcome([ss EXCEPT !.custom_resume = g.ret, !.resume_generated = TRUE, !.selected_skills = Some(selected)], g.msgs, g.sent, Invoked("generate_custom_resume", selected))
                 ELSE Outcome(ss, g.msgs, g.sent, Invoked("generate_custom_resume", selected))

\* "Generate Tailored Resume"
OnGenerateResume(ss, cb, resume_text, job_description, outcome) ==
    LET selected == Ticked(ss.skills.val, cb)
    IN  IF TooFew(selected) THEN Outcome(ss, {"min_skills"}, <<>>, <<>>)
        ELSE LET g == GenerateCustomResume(resume_text, job_description, selected, outcome)
             IN  IF Truthy(g.ret)
                 THEN Outcome([ss EXCEPT !.custom_resume = g.ret, !.resume_generated = TRUE, !.selected_skills = Some(selected)], g.msgs, g.sent, Invoked("generate_custom_resume", selected))
                 ELSE Outcome(ss, g.msgs, g.sent, Invoked("generate_custom_resume", selected))

\* "Analyze Job Requirements for Cover Letter"
OnAnalyzeCover(ss, resume_text, job_description, company_name, recipient_name, outcome) ==
    IF resume_text = <<>> \/ job_description = <<>> \/ company_name = <<>> \/ recipient_name = <<>>
    THEN Outcome(ss, {"missing_inputs"}, <<>>, <<>>)
    ELSE LET e == builder_extract_skills[job_description, outcome]
             s1 == [ss EXCEPT !.skills = e.ret]
         IN  IF ~Truthy(s1.skills)
             THEN Outcome(s1, e.msgs \cup {"extract_failed"}, e.sent, Invoked("extract_skills", <<>>))
             ELSE Outcome([s1 EXCEPT !.cover_letter_generated = FALSE], e.msgs, e.sent, Invoked("extract_skills", <<>>))

\* the handler setting the flag whatever generate_cover_letter returned
OnGenerateCoverUnguarded(ss, cb, resume_text, job_description, company_name, recipient_name, outcome) ==
    LET selected == Ticked(ss.skills.val, cb)
    IN  IF TooFew(selected) THEN Outcome(ss, {"min_skills"}, <<>>, <<>>)
        ELSE LET g == GenerateCoverLetter(resume_text, job_description, selected, company_name, recipient_name, outcome)
             IN  Outcome([ss EXCEPT !.custom_cover_letter = g.ret, !.cover_letter_generated = TRUE, !.selected_skills = Some(selected)], g.msgs, g.sent, Invoked("generate_cover_letter", selected))

\* "Generate Tailored Cover Letter"
OnGenerateCover(ss, cb, resume_text, job_description, company_name, recipient_name, outcome) ==
    LET selected == Ticked(ss.skills.val, cb)
    IN  IF TooFew(selected) THEN Outcome(ss, {"min_skills"}, <<>>, <<>>)
        ELSE LET g == GenerateCoverLetter(resume_text, job_description, selected, company_name, recipient_name, outcome)
             IN  IF Truthy(g.ret)
                 THEN Outcome([ss EXCEPT !.custom_cover_letter = g.ret, !.cover_letter_generated = TRUE, !.selected_skills = Some(selected)], g.msgs, g.sent, Invoked("generate_cover_letter", selected))
                 ELSE Outcome(ss, g.msgs, g.sent, Invoked("generate_cover_letter", selected))

\* Step 2 is rendered, in both tabs, when st.session_state.skills is truthy
Step2Offered == app = "resume" /\ ~BuilderStops(api_key) /\ Truthy(session_state.skills)

\* Step 3 of a tab left out
NotRendered == [shown |-> None, rendered |-> FALSE, pdf_data |-> None, link |-> FALSE, escaped |-> FALSE]

\* Step 3 of a tab: the stored document is displayed, then create_pdf is
\* called and the download link displayed when pdf_data is truthy
Step3(generated, document, fpdf_raises) ==
    IF ~generated THEN NotRendered
    ELSE LET pdf_data == CreatePdf(document, fpdf_raises)
         IN  [shown |-> document, rendered |-> TRUE, pdf_data |-> pdf_data, link |-> Truthy(pdf_data), escaped |-> FALSE]

\* Step 3 of both tabs for session state ss; whether FPDF raises is up to
\* the installed library and is drawn for each call
RenderStep3(ss) ==
    {[resume |-> Step3(ss.resume_generated, ss.custom_resume, r), cover |-> Step3(ss.cover_letter_generated, ss.custom_cover_letter, c)] : r \in (IF ss.resume_generated THEN BOOLEAN ELSE {FALSE}), c \in (IF ss.cover_letter_generated THEN BOOLEAN ELSE {FALSE})}

\* Step 3 of each tab
ResumeShown == app = "resume" /\ ~BuilderStops(api_key) /\ session_state.resume_generated

CoverLetterShown == app = "resume" /\ ~BuilderStops(api_key) /\ session_state.cover_letter_generated

----------------------------------------------------------------------------
\* Nutrition planner.

\* generate_meal_plan: response.text is returned as it is, an exception is
\* reported with st.error and None returned
GenerateMealPlan(prompt, outcome) ==
    IF outcome.raises
    THEN [ret |-> None, sent |-> <<[prompt |-> prompt, answer |-> outcome]>>, msgs |-> {"generation_error"}]
    ELSE [ret |-> Some(outcome.text), sent |-> <<[prompt |-> prompt, answer |-> outcome]>>, msgs |-> {}]

\* FPDF with a core font raises on a character outside latin-1
FpdfRaises(text) == \E i \in 1..Len(text) : text[i] = NonLatin1

\* the body of the submit button: what the run displays
OnSubmit(outcome) ==
    LET g == GenerateMealPlan(Prompt("meal_plan", <<>>, <<>>, <<>>, <<>>, <<>>), outcome)
    IN  IF Truthy(g.ret)
        THEN [shown |-> g.ret, link |-> ~FpdfRaises(g.ret.val), escaped |-> FpdfRaises(g.ret.val), msgs |-> g.msgs, sent |-> g.sent]
        ELSE [shown |-> None, link |-> FALSE, escaped |-> FALSE, msgs |-> g.msgs \cup {"meal_failed"}, sent |-> g.sent]

\* the module stops at startup without the key
NutritionStops(key) == ~key

----------------------------------------------------------------------------
\* The sessions: one script run per action.

NoArgs == [resume |-> <<>>, jd |-> <<>>, skills |-> <<>>, company |-> <<>>, recipient |-> <<>>, file_data |-> <<>>, filename |-> <<>>]

Init ==
    /\ app \in {"resume", "nutrition"}
    /\ api_key \in BOOLEAN
    /\ session_state = InitialSessionState
    /\ skill_cb = DefaultCb
    /\ cover_letter_skill_cb = DefaultCb
    /\ pressed = "none"
    /\ msgs = IF (app = "resume" /\ BuilderStops(api_key)) \/ (app = "nutrition" /\ NutritionStops(api_key)) THEN {"missing_key"} ELSE {}
    /\ sent = <<>>
    /\ invoked = <<>>
    /\ escaped = FALSE
    /\ meal_shown = None
    /\ meal_link = FALSE
    /\ step3 = [resume |-> NotRendered, cover |-> NotRendered]
    /\ skills_jd = None
    /\ pc = "ui"
    /\ fn = "none"
    /\ args = NoArgs
    /\ svc = SvcRaise
    /\ ret = None

\* the job description the stored list comes from, after a run: the one in the
\* prompt of extract_skills when the run called it and stored a list
SkillsJd(before, out) ==
    IF out.invoked # <<>> /\ out.invoked[1].method = "extract_skills"
    THEN IF Truthy(out.ss.skills) THEN Some(out.sent[1].prompt.jd) ELSE None
    ELSE before

\* the part of a resume-application run that follows the pressed button's
\* handler: both tabs render their checkboxes from the skills now stored
ResumeRun(button, out) ==
    /\ session_state' = out.ss
    /\ msgs' = out.msgs
    /\ sent' = out.sent
    /\ invoked' = out.invoked
    /\ pressed' = button
    /\ skill_cb' \in Rerender(skill_cb, session_state.skills, out.ss.skills)
    /\ cover_letter_skill_cb' \in Rerender(cover_letter_skill_cb, session_state.skills, out.ss.skills)
    /\ step3' \in RenderStep3(out.ss)
    /\ skills_jd' = SkillsJd(skills_jd, out)
    /\ escaped' = FALSE
    /\ UNCHANGED <<app, api_key, meal_shown, meal_link>>
    /\ UNCHANGED fnVars

AnalyzeResume ==
    /\ app = "resume" /\ ~BuilderStops(api_key)
    /\ \E out \in {OnAnalyzeResume(session_state, f.resume, f.jd, o) : f \in ResumeForms, o \in AnalyzeOutcomes} :
            ResumeRun("analyze_resume", out)

GenerateResume ==
    /\ Step2Offered
    /\ \E out \in {OnGenerateResume(session_state, skill_cb, f.resume, f.jd, o) : f \in ResumeForms, o \in GenerateOutcomes} :
            ResumeRun("generate_resume", out)

AnalyzeCover ==
    /\ app = "resume" /\ ~BuilderStops(api_key)
    /\ \E out \in {OnAnalyzeCover(session_state, f.resume, f.jd, f.company, f.recipient, o) : f \in CoverForms, o \in AnalyzeOutcomes} :
            ResumeRun("analyze_cover", out)

GenerateCover ==
    /\ Step2Offered
    /\ \E out \in {OnGenerateCover(session_state, cover_letter_skill_cb, f.resume, f.jd, f.company, f.recipient, o) : f \in CoverForms, o \in GenerateOutcomes} :
            ResumeRun("generate_cover", out)

Unticked(cb) == {i \in 1..MAX_SKILLS : DefaultCb[i] /\ ~cb[i]}

\* ticking or unticking a checkbox reruns the script with no button pressed
ToggleResumeSkill ==
    /\ Step2Offered
    /\ \E i \in 1..Len(session_state.skills.val) :
            /\ skill_cb[i] => Cardinality(Unticked(skill_cb)) + Cardinality(Unticked(cover_letter_skill_cb)) < MaxUnticked
            /\ skill_cb' = [skill_cb EXCEPT ![i] = ~@]
    /\ pressed' = "none" /\ msgs' = {} /\ sent' = <<>> /\ invoked' = <<>> /\ escaped' = FALSE
    /\ step3' \in RenderStep3(session_state)
    /\ UNCHANGED <<app, api_key, session_state, cover_letter_skill_cb, meal_shown, meal_link, skills_jd>>
    /\ UNCHANGED fnVars

ToggleCoverSkill ==
    /\ Step2Offered
    /\ \E i \in 1..Len(session_state.skills.val) :
            /\ cover_letter_skill_cb[i] => Cardinality(Unticked(skill_cb)) + Cardinality(Unticked(cover_letter_skill_cb)) < MaxUnticked
            /\ cover_letter_skill_cb' = [cover_letter_skill_cb EXCEPT ![i] = ~@]
    /\ pressed' = "none" /\ msgs' = {} /\ sent' = <<>> /\ invoked' = <<>> /\ escaped' = FALSE
    /\ step3' \in RenderStep3(session_state)
    /\ UNCHANGED <<app, api_key, session_state, skill_cb, meal_shown, meal_link, skills_jd>>
    /\ UNCHANGED fnVars

\* editing a field reruns the script with no button pressed
EditField ==
    /\ \/ app = "resume" /\ ~BuilderStops(api_key)
       \/ app = "nutrition" /\ ~NutritionStops(api_key)
    /\ pressed' = "none" /\ msgs' = {} /\ sent' = <<>> /\ invoked' = <<>> /\ escaped' = FALSE
    /\ meal_shown' = None /\ meal_link' = FALSE
    /\ step3' \in RenderStep3(session_state)
    /\ UNCHANGED <<app, api_key, session_state, skill_cb, cover_letter_skill_cb, skills_jd>>
    /\ UNCHANGED fnVars

\* "Generate My Personalized Plan!"
SubmitProfile ==
    /\ app = "nutrition" /\ ~NutritionStops(api_key)
    /\ \E o \in MealOutcomes :
            LET out == OnSubmit(o)
            IN  /\ meal_shown' = out.shown
                /\ meal_link' = out.link
                /\ escaped' = out.escaped
                /\ msgs' = out.msgs
                /\ sent' = out.sent
    /\ pressed' = "submit_profile"
    /\ invoked' = <<>>
    /\ UNCHANGED <<app, api_key, session_state, skill_cb, cover_letter_skill_cb, step3, skills_jd>>
    /\ UNCHANGED fnVars

Next ==
    \/ AnalyzeResume
    \/ GenerateResume
    \/ AnalyzeCover
    \/ GenerateCover
    \/ ToggleResumeSkill
    \/ ToggleCoverSkill
    \/ EditField
    \/ SubmitProfile

Spec == Init /\ [][Next]_vars

----------------------------------------------------------------------------
\* The methods of ResumeBuilder called on their own: the arguments and the
\* service's answer are drawn at the start, one action per method applies it.

Alphabet == {"1", ".", " ", "a"}

\* every line of at most MaxLineLen characters
SingleLines == UNION {[1..n -> Alphabet] : n \in 0..MaxLineLen}

NumberedLines == {<<"1", ".", " ", "a">>, <<"1", "0", ".", "b">>}

\* ls with a bulleted line put before its p-th line (p = 0: ls as it is)
WithBullet(ls, p) ==
    IF p = 0 THEN ls
    ELSE SubSeq(ls, 1, p - 1) \o << <<"-", " ", "a">> >> \o SubSeq(ls, p, Len(ls))

\* a response of n numbered lines and at most one bulleted line
LongText(ls, p) == JoinLines(WithBullet(ls, p))

ArgTexts == {<<>>, <<" ">>, <<"x">>}

ByteValues == {0, 1, 77, 128, 255}

\* every buffer of at most MaxBytes bytes
ByteBuffers == UNION {[1..n -> ByteValues] : n \in 0..MaxBytes}

\* the three names the applications pass, shortened, and names with
\* characters HTML reads specially
FileNames == {<<"m", ".", "p", "d", "f">>, <<"a", "\"", "b">>, <<"\"">>}

ArgSkills == {<<>>, << <<"a">> >>, << <<"a">>, <<"b">>, <<"c">> >>}

FnInit ==
    /\ app = "methods"
    /\ api_key = TRUE
    /\ session_state = InitialSessionState
    /\ skill_cb = DefaultCb
    /\ cover_letter_skill_cb = DefaultCb
    /\ pressed = "none"
    /\ msgs = {}
    /\ sent = <<>>
    /\ invoked = <<>>
    /\ escaped = FALSE
    /\ meal_shown = None
    /\ meal_link = FALSE
    /\ step3 = [resume |-> NotRendered, cover |-> NotRendered]
    /\ skills_jd = None
    /\ pc = "call"
    /\ ret = None
    /\ \/ /\ fn = "extract_skills"
          /\ \E j \in JobDescs : args = [NoArgs EXCEPT !.jd = j]
          /\ svc \in AnalyzeOutcomes \cup {SvcText(t) : t \in SingleLines}
       \/ /\ fn = "extract_skills"
          /\ args = [NoArgs EXCEPT !.jd = <<"j">>]
          /\ \E n \in 2..MaxNumbered : \E ls \in [1..n -> NumberedLines], p \in 0..n :
                svc = SvcText(LongText(ls, p))
       \/ /\ fn = "generate_custom_resume"
          /\ args \in [resume : ArgTexts, jd : ArgTexts, skills : ArgSkills, company : {<<>>}, recipient : {<<>>}, file_data : {<<>>}, filename : {<<>>}]
          /\ svc \in GenerateOutcomes
       \/ /\ fn = "generate_cover_letter"
          /\ args \in [resume : ArgTexts, jd : ArgTexts, skills : ArgSkills, company : ArgTexts, recipient : ArgTexts, file_data : {<<>>}, filename : {<<>>}]
          /\ svc \in GenerateOutcomes
       \/ /\ fn = "create_download_link"
          /\ \E d \in ByteBuffers, f \in FileNames : args = [NoArgs EXCEPT !.file_data = d, !.filename = f]
          /\ svc = SvcRaise

Returns(r) ==
    /\ ret' = r.ret
    /\ sent' = r.sent
    /\ msgs' = r.msgs
    /\ pc' = "done"
    /\ UNCHANGED <<fn, args, svc>>
    /\ UNCHANGED uiVars

CallExtractSkills ==
    /\ pc = "call" /\ fn = "extract_skills"
    /\ Returns(ExtractSkills(args.jd, svc))

CallGenerateCustomResume ==
    /\ pc = "call" /\ fn = "generate_custom_resume"
    /\ Returns(GenerateCustomResume(args.resume, args.jd, args.skills, svc))

CallGenerateCoverLetter ==
    /\ pc = "call" /\ fn = "generate_cover_letter"
    /\ Returns(GenerateCoverLetter(args.resume, args.jd, args.skills, args.company, args.recipient, svc))

CallCreateDownloadLink ==
    /\ pc = "call" /\ fn = "create_download_link"
    /\ Returns([ret |-> Some(CreateDownloadLink(args.file_data, args.filename)), sent |-> <<>>, msgs |-> {}])

FnNext ==
    \/ CallExtractSkills
    \/ CallGenerateCustomResume
    \/ CallGenerateCoverLetter
    \/ CallCreateDownloadLink

SpecFn == FnInit /\ [][FnNext]_vars

----------------------------------------------------------------------------
\* Properties.

\* the skill list Step 2 offers: empty when skills is [] or None
StoredList(ss) == IF Truthy(ss.skills) THEN ss.skills.val ELSE <<>>

\* a call the service answered with an exception or with an empty body
FailedCall(c) == c.answer.raises \/ c.answer.text = <<>>

\* a run whose action failed: a warning or an error was shown, or a call failed
FailedRun(m, p) ==
    \/ m \cap {"missing_inputs", "extract_failed", "generation_error", "min_skills"} # {}
    \/ \E i \in 1..Len(p) : FailedCall(p[i])

\* C1: in either flow, a successful Analyze pressed after a document was
\* generated returns the flow to the pre-selection state: the generated flag
\* is false, the skill list is the one just extracted, and no selection of
\* the round before is kept, neither selected_skills nor the checkboxes.
C1_ReanalyzeReturnsToPreSelection ==
    [][ /\ (session_state.resume_generated /\ pressed' = "analyze_resume" /\ msgs' = {})
            => /\ ~session_state'.resume_generated
               /\ session_state'.skills = Some(ParseSkills(SplitLines(sent'[1].answer.text), <<>>))
               /\ session_state'.selected_skills = None
               /\ skill_cb' = DefaultCb
        /\ (session_state.cover_letter_generated /\ pressed' = "analyze_cover" /\ msgs' = {})
            => /\ ~session_state'.cover_letter_generated
               /\ session_state'.skills = Some(ParseSkills(SplitLines(sent'[1].answer.text), <<>>))
               /\ session_state'.selected_skills = None
               /\ cover_letter_skill_cb' = DefaultCb ]_vars

\* C2: an action that fails leaves the session state as it was; a failed
\* Analyze does not erase a stored skill list.  (An empty list and None are
\* taken as the same "no list stored".)
C2_FailedActionKeepsState ==
    [][ FailedRun(msgs', sent')
            => /\ StoredList(session_state') = StoredList(session_state)
               /\ [session_state' EXCEPT !.skills = None] = [session_state EXCEPT !.skills = None] ]_vars

ResumeFlow(ss) == <<StoredList(ss), ss.resume_generated, ss.custom_resume>>

CoverFlow(ss) == <<StoredList(ss), ss.cover_letter_generated, ss.custom_cover_letter>>

\* C3: the two flows are independent: Analyze or Generate in one flow leaves
\* the other flow's Step 2 (offered or not, and its list), generated flag
\* and document unchanged.
C3_FlowsIndependent ==
    [][ /\ pressed' \in {"analyze_resume", "generate_resume"}
            => CoverFlow(session_state') = CoverFlow(session_state)
        /\ pressed' \in {"analyze_cover", "generate_cover"}
            => ResumeFlow(session_state') = ResumeFlow(session_state) ]_vars

\* what C4 asks of a Generate run given the skills ticked when it is pressed
GenerateGate(selected, method, m, p, inv, before, after) ==
    IF Len(selected) < 3
    THEN "min_skills" \in m /\ p = <<>> /\ inv = <<>> /\ after = before
    ELSE "min_skills" \notin m /\ inv = Invoked(method, selected)

\* C4: Generate with fewer than 3 skills ticked shows the warning, calls
\* nothing and changes no state; with 3 or more it goes on to the synthesis
\* method with the ticked skills.
C4_GenerateNeedsThreeSkills ==
    [][ /\ pressed' = "generate_resume"
            => GenerateGate(Ticked(StoredList(session_state), skill_cb), "generate_custom_resume", msgs', sent', invoked', session_state, session_state')
        /\ pressed' = "generate_cover"
            => GenerateGate(Ticked(StoredList(session_state), cover_letter_skill_cb), "generate_cover_letter", msgs', sent', invoked', session_state, session_state') ]_vars

\* C4 witness: Generate accepted with exactly 3 of 4 skills ticked, and a
\* call made
C4_Witness ==
    /\ pressed = "generate_resume"
    /\ Len(StoredList(session_state)) = 4
    /\ invoked # <<>> /\ Len(invoked[1].skills) = 3
    /\ Len(sent) = 1

\* C5: generate_custom_resume and generate_cover_letter return None without
\* calling the service when a required argument is empty, and extract_skills
\* when the job description is empty once trimmed.
C5_ValidationBeforeCall ==
    pc = "done" =>
        /\ (fn = "generate_custom_resume" /\ <<>> \in {args.resume, args.jd, args.skills})
            => ret = None /\ sent = <<>>
        /\ (fn = "generate_cover_letter" /\ <<>> \in {args.resume, args.jd, args.skills, args.company, args.recipient})
            => ret = None /\ sent = <<>>
        /\ (fn = "extract_skills" /\ \A i \in 1..Len(args.jd) : IsSpace(args.jd[i]))
            => ret = None /\ sent = <<>>

\* C5 witness: generate_cover_letter returned with only the recipient empty
C5_Witness ==
    /\ pc = "done" /\ fn = "generate_cover_letter"
    /\ args.recipient = <<>>
    /\ <<>> \notin {args.resume, args.jd, args.skills, args.company}
    /\ ret = None /\ sent = <<>>

\* the lines of a response that match the numbered pattern, by position
MatchingIdx(lines) == {i \in 1..Len(lines) : RegexMatch(Strip(lines[i])).ok}

C7_NoMatchIsFailure ==
    (pressed \in {"analyze_resume", "analyze_cover"} /\ sent # <<>> /\ ~sent[1].answer.raises /\ MatchingIdx(SplitLines(sent[1].answer.text)) = {})
        => /\ session_state.skills = None
           /\ "extract_failed" \in msgs
           /\ ~Step2Offered

\* C7 witness: an analysis answered with a non-empty text without a numbered
\* line, after a list had been stored
C7_Witness ==
    /\ pressed = "analyze_cover" /\ sent # <<>> /\ ~sent[1].answer.raises
    /\ Len(sent[1].answer.text) > 3
    /\ MatchingIdx(SplitLines(sent[1].answer.text)) = {}
    /\ session_state.skills = None
    /\ session_state.resume_generated

\* C8: when a call to the service raises or returns an empty body, no
\* exception escapes the action, no skill list or document is produced and
\* an error message is shown.
C8_FailedCallIsReported ==
    [][ (sent' # <<>> /\ FailedCall(sent'[1]))
            => /\ ~escaped'
               /\ pressed' \in {"analyze_resume", "analyze_cover"} => ~Truthy(session_state'.skills)
               /\ session_state'.custom_resume = session_state.custom_resume
               /\ session_state'.custom_cover_letter = session_state.custom_cover_letter
               /\ meal_shown' = None /\ ~meal_link'
               /\ msgs' # {} ]_vars

\* C9: a run makes at most one call to the service, also when the call
\* fails, and none unless a button was pressed.
C9_AtMostOneCallPerPress ==
    /\ Len(sent) <= 1
    /\ pressed = "none" => sent = <<>>

\* C9 witness: a Generate run whose single call failed
C9_Witness ==
    /\ pressed = "generate_cover"
    /\ Len(sent) = 1 /\ FailedCall(sent[1])

\* C10: without GOOGLE_API_KEY the application shows the error and stops: no
\* button was pressed, no call was made, and no action can be taken.
C10_NoKeyHalts ==
    ~api_key =>
        /\ "missing_key" \in msgs
        /\ pressed = "none"
        /\ sent = <<>>
        /\ ~ENABLED Next

\* C10 witness: the resume application started without the key
C10_Witness ==
    /\ app = "resume" /\ ~api_key
    /\ msgs = {"missing_key"}

\* what C11 asks of Step 3 of a tab whose PDF rendering failed
Step3ExportFailure(panel, document) ==
    (panel.rendered /\ ~Truthy(panel.pdf_data))
        => /\ panel.pdf_data = None
           /\ ~panel.link
           /\ Truthy(panel.shown) /\ panel.shown = document
           /\ ~panel.escaped /\ ~escaped

\* C11: for the meal plan, the tailored resume and the tailored cover
\* letter: when rendering the generated text to a PDF fails, the download
\* link is omitted, the generated text is still displayed and no exception
\* escapes the run.
C11_PdfFailureOmitsLink ==
    /\ Step3ExportFailure(step3.resume, session_state.custom_resume)
    /\ Step3ExportFailure(step3.cover, session_state.custom_cover_letter)
    /\ (pressed = "submit_profile" /\ sent # <<>> /\ ~FailedCall(sent[1]) /\ FpdfRaises(sent[1].answer.text))
        => /\ ~meal_link
           /\ meal_shown = Some(sent[1].answer.text)
           /\ ~escaped

\* the value of a base64 character
B64Value(c) == CHOOSE v \in 0..63 : B64Chars[v + 1] = c

IsB64Char(c) == \E v \in 0..63 : B64Chars[v + 1] = c

\* base64 decoding: groups of four characters, "=" only as the padding of
\* the last group; None for a text that is not padded base64
RECURSIVE B64Decode(_)
B64Decode(text) ==
    IF text = <<>> THEN Some(<<>>)
    ELSE IF Len(text) < 4 \/ ~IsB64Char(text[1]) \/ ~IsB64Char(text[2]) THEN None
    ELSE IF text[3] = "=" /\ text[4] = "="
    THEN IF Len(text) = 4 THEN Some(<<(B64Value(text[1]) * 64 + B64Value(text[2])) \div 16>>) ELSE None
    ELSE IF ~IsB64Char(text[3]) THEN None
    ELSE IF text[4] = "="
    THEN IF Len(text) = 4
         THEN LET n == B64Value(text[1]) * 4096 + B64Value(text[2]) * 64 + B64Value(text[3])
              IN  Some(<<n \div 1024, (n \div 4) % 256>>)
         ELSE None
    ELSE IF ~IsB64Char(text[4]) THEN None
    ELSE LET n == B64Value(text[1]) * 262144 + B64Value(text[2]) * 4096 + B64Value(text[3]) * 64 + B64Value(text[4])
             rest == B64Decode(SubSeq(text, 5, Len(text)))
         IN  IF rest.ok THEN Some(<<n \div 65536, (n \div 256) % 256, n % 256>> \o rest.val) ELSE None

\* what follows the first occurrence of pat in text
RECURSIVE After(_, _)
After(text, pat) ==
    IF Len(text) < Len(pat) THEN None
    ELSE IF SubSeq(text, 1, Len(pat)) = pat THEN Some(SubSeq(text, Len(pat) + 1, Len(text)))
    ELSE After(Tail(text), pat)

\* the characters of text before the first c
RECURSIVE UpTo(_, _)
UpTo(text, c) ==
    IF text = <<>> \/ Head(text) = c THEN <<>>
    ELSE <<Head(text)>> \o UpTo(Tail(text), c)

\* the value of a double-quoted attribute of the tag, as HTML reads it: from
\* the opening quote to the next double quote
AttrValue(link, name) ==
    LET a == After(link, <<" ">> \o name \o <<"=", "\"">>)
    IN  IF a.ok THEN Some(UpTo(a.val, "\"")) ELSE None

\* the payload of the data URI in href
Payload(link) ==
    LET href == AttrValue(link, <<"h", "r", "e", "f">>)
    IN  IF href.ok THEN After(href.val, <<"b", "a", "s", "e", "6", "4", ",">>) ELSE None

DecodedPayload(link) == LET p == Payload(link) IN IF p.ok THEN B64Decode(p.val) ELSE None

\* C12 as stated: for every byte buffer and every filename, decoding the
\* base64 payload of the data URI in the returned link gives the buffer back
\* byte for byte, and the link's download attribute is the filename.
C12_LinkRoundTrips ==
    (pc = "done" /\ fn = "create_download_link") =>
        /\ DecodedPayload(ret.val) = Some(args.file_data)
        /\ AttrValue(ret.val, <<"d", "o", "w", "n", "l", "o", "a", "d">>) = Some(args.filename)

\* characters that end or alter a double-quoted attribute value
HtmlSpecial == {"\"", "&"}

PlainName(filename) == \A i \in 1..Len(filename) : filename[i] \notin HtmlSpecial

\* C12 amended: the payload decodes to the buffer for every buffer and
\* filename; the download attribute is the filename for every filename
\* without a double quote or an ampersand.
C12_LinkRoundTripsPlainName ==
    (pc = "done" /\ fn = "create_download_link") =>
        /\ DecodedPayload(ret.val) = Some(args.file_data)
        /\ PlainName(args.filename) => AttrValue(ret.val, <<"d", "o", "w", "n", "l", "o", "a", "d">>) = Some(args.filename)

\* C12 witness: a buffer of four bytes (a padded last group) holding the
\* byte 255, linked under a plain name and decoded back
C12_Witness ==
    /\ pc = "done" /\ fn = "create_download_link"
    /\ Len(args.file_data) = 4 /\ args.file_data[4] = 255 /\ args.file_data[1] = 77
    /\ args.filename = <<"m", ".", "p", "d", "f">>
    /\ DecodedPayload(ret.val) = Some(args.file_data)
    /\ AttrValue(ret.val, <<"d", "o", "w", "n", "l", "o", "a", "d">>) = Some(args.filename)

\* C13: submitting the profile makes one meal-plan synthesis; a non-empty
\* answer is displayed together with the meal_plan.pdf download link; when
\* the call fails or answers nothing an error is shown, neither plan nor
\* link is displayed, and Submit is available again.
C13_MealPlanFlow ==
    pressed = "submit_profile" =>
        /\ Len(sent) = 1
        /\ ~FailedCall(sent[1]) => (meal_shown = Some(sent[1].answer.text) /\ meal_link)
        /\ FailedCall(sent[1]) =>
                /\ msgs \cap {"generation_error", "meal_failed"} # {}
                /\ meal_shown = None /\ ~meal_link
                /\ ENABLED SubmitProfile

\* a trimmed line read as digits, a period, blanks, text: the text when the
\* line has one or more digits, the period, at least minBlanks blanks and a
\* non-empty text after them; None for any other line
NumberedShape(line, minBlanks) ==
    LET t == Strip(line)
        d == CountLeading(t, TRUE)
        rest == SubSeq(t, d + 2, Len(t))
        w == CountLeading(rest, FALSE)
    IN  IF d >= 1 /\ Len(t) > d /\ t[d + 1] = "." /\ w >= minBlanks /\ Len(rest) > w
        THEN Some(SubSeq(rest, w + 1, Len(rest)))
        ELSE None

\* the texts of the lines that have the shape, in order
RECURSIVE ShapedSkills(_, _)
ShapedSkills(lines, minBlanks) ==
    IF lines = <<>> THEN <<>>
    ELSE LET h == NumberedShape(Head(lines), minBlanks)
         IN  (IF h.ok THEN <<h.val>> ELSE <<>>) \o ShapedSkills(Tail(lines), minBlanks)

\* extract_skills returned the lines of the response that have the shape,
\* and only them (the first 10 at most)
AcceptsShape(minBlanks) ==
    (pc = "done" /\ fn = "extract_skills" /\ ~svc.raises /\ svc.text # <<>> /\ Strip(args.jd) # <<>>) =>
        LET expected == ShapedSkills(SplitLines(svc.text), minBlanks)
            n == IF Len(expected) < 10 THEN Len(expected) ELSE 10
        IN  ret = IF n = 0 THEN None ELSE Some(SubSeq(expected, 1, n))

\* C14 as stated: a response line is a skill if and only if, trimmed, it is
\* one or more digits, a period, at least one whitespace character and a
\* non-empty text; the skill is the text after the whitespace; every other
\* line is ignored.
C14_AcceptedIffDigitsPeriodSpaceText == AcceptsShape(1)

\* C14 amended: the whitespace after the period is optional (zero or more
\* whitespace characters).
C14_AcceptedIffDigitsPeriodText == AcceptsShape(0)

\* C14 witness: a one-line response with the text right after the period,
\* returned as a skill
C14_Witness ==
    /\ pc = "done" /\ fn = "extract_skills"
    /\ svc = SvcText(<<"1", ".", "a">>)
    /\ ret = Some(<< <<"a">> >>)

\* sub is full with some entries left out, the others in full's order
RECURSIVE IsSubSeq(_, _)
IsSubSeq(sub, full) ==
    IF sub = <<>> THEN TRUE
    ELSE IF full = <<>> THEN FALSE
    ELSE IF Head(sub) = Head(full) THEN IsSubSeq(Tail(sub), Tail(full))
    ELSE IsSubSeq(sub, Tail(full))

\* C15: whenever a run of the UI invokes generate_custom_resume or
\* generate_cover_letter, the skills passed are a sub-sequence of the skill
\* list stored in the session, at least 3 of them; a skill of an earlier,
\* replaced list is never passed.
C15_SelectedFromCurrentList ==
    (invoked # <<>> /\ invoked[1].method \in {"generate_custom_resume", "generate_cover_letter"})
        => /\ IsSubSeq(invoked[1].skills, StoredList(session_state))
           /\ Len(invoked[1].skills) >= 3

\* C15 witness: generate_cover_letter invoked with 3 of the 4 skills of the
\* list, the first left out, while another selection, stored by an earlier
\* Generate, is still in the session
C15_Witness ==
    /\ pressed = "generate_cover" /\ invoked # <<>>
    /\ invoked[1].skills = SubSeq(StoredList(session_state), 2, 4)
    /\ Truthy(session_state.selected_skills)
    /\ session_state.selected_skills.val # invoked[1].skills

\* C16: in every session state, resume_generated implies a non-empty
\* custom_resume is stored and cover_letter_generated a non-empty
\* custom_cover_letter, so Step 3 never displays a missing or empty document.
C16_GeneratedHasDocument ==
    /\ session_state.resume_generated => Truthy(session_state.custom_resume)
    /\ session_state.cover_letter_generated => Truthy(session_state.custom_cover_letter)
    /\ step3.resume.rendered => Truthy(step3.resume.shown)
    /\ step3.cover.rendered => Truthy(step3.cover.shown)

\* C16 witness: both documents generated and displayed, and the last run a
\* cover-letter generation that failed
C16_Witness ==
    /\ session_state.resume_generated /\ session_state.cover_letter_generated
    /\ step3.resume.rendered /\ step3.cover.rendered
    /\ pressed = "generate_cover" /\ sent # <<>> /\ FailedCall(sent[1])

\* the checkboxes of a tab ticked in every possible way
Selections == [1..MAX_SKILLS -> BOOLEAN]

\* C17: whenever the session holds a non-empty skill list, there is a
\* selection of its skills with which Generate is accepted and, the service
\* answering with a document, the document is stored and the generated flag
\* set; in the resume tab and in the cover-letter tab.
C17_GenerationReachable ==
    Step2Offered =>
        /\ \E cb \in Selections :
                LET out == OnGenerateResume(session_state, cb, <<"r">>, <<"j">>, SvcText(<<"D">>))
                IN  out.invoked # <<>> /\ out.ss.resume_generated /\ out.ss.custom_resume = Some(<<"D">>)
        /\ \E cb \in Selections :
                LET out == OnGenerateCover(session_state, cb, <<"r">>, <<"j">>, <<"c">>, <<"n">>, SvcText(<<"D">>))
                IN  out.invoked # <<>> /\ out.ss.cover_letter_generated /\ out.ss.custom_cover_letter = Some(<<"D">>)

\* C18: whenever a tailored resume or cover letter is generated, the job
\* description in the synthesis prompt is the one the stored skill list was
\* extracted from; editing the field after Analyze cannot give a document
\* made of the skills of one job description and the text of another.
C18_PromptUsesAnalyzedJd ==
    (pressed \in {"generate_resume", "generate_cover"} /\ sent # <<>> /\ ~FailedCall(sent[1]))
        => skills_jd = Some(sent[1].prompt.jd)

====
